---- MODULE Spec2Model ----
(***************************************************************************)
(* Model of the bootz ownership-voucher package (RemovePemHeaders, New,    *)
(* VerifyAndUnmarshal) and of the bootz server's start-up (readKeypair,    *)
(* readOVs, generateServerTlsCert, parseSecurityArtifacts, main).          *)
(*                                                                         *)
(* Go strings and byte slices are sequences of characters.  A character   *)
(* is a TLA+ string; the fixed ASCII words of the program (a PEM delimiter *)
(* line, a JSON member name) are single characters of the model.           *)
(***************************************************************************)
EXTENDS Integers, Sequences, FiniteSets, TLC

\* ------------------------------------------------------------------ bounds
\* longest text (in characters) RemovePemHeaders is tried on
MaxPem == 7
\* latest clock reading (hours) at which New is called
MaxClock == 1

\* ----------------------------------------------------------------- strings
\* a nil error
nil == "nil"
\* a pointer: nil, or the address of one value
NilPtr == {}
Ptr(x) == {x}
Deref(p) == CHOOSE x \in p : TRUE

NL == "\n"
\* a byte that is not valid UTF-8 (0xff)
BadByte == "0xff"
\* U+FFFD, the Unicode replacement rune
Replacement == "U+FFFD"
Quote == "\""

\* strings.TrimPrefix
TrimPrefix(s, prefix) ==
  IF Len(s) >= Len(prefix) /\ SubSeq(s, 1, Len(prefix)) = prefix
  THEN SubSeq(s, Len(prefix) + 1, Len(s))
  ELSE s

\* strings.TrimSuffix
TrimSuffix(s, suffix) ==
  IF Len(s) >= Len(suffix) /\ SubSeq(s, Len(s) - Len(suffix) + 1, Len(s)) = suffix
  THEN SubSeq(s, 1, Len(s) - Len(suffix))
  ELSE s

\* strings.HasPrefix
HasPrefix(s, prefix) ==
  Len(s) >= Len(prefix) /\ SubSeq(s, 1, Len(prefix)) = prefix

\* strings.HasSuffix
HasSuffix(s, suffix) ==
  Len(s) >= Len(suffix) /\ SubSeq(s, Len(s) - Len(suffix) + 1, Len(s)) = suffix

\* strings.Contains, for a non-empty substr
Contains(s, substr) ==
  \E i \in 1..Len(s) :
    i + Len(substr) - 1 <= Len(s) /\ SubSeq(s, i, i + Len(substr) - 1) = substr

\* --------------------------------------------------------------------- PEM
\* "-----BEGIN CERTIFICATE-----\n"
PemHeader == <<"-----BEGIN CERTIFICATE-----", NL>>
\* "\n-----END CERTIFICATE-----\n"
PemFooter == <<NL, "-----END CERTIFICATE-----", NL>>

\* a variant of RemovePemHeaders that forgets the newline before the END line
RemovePemHeadersKeepsNewline(pemBlock) ==
  TrimSuffix(TrimPrefix(pemBlock, PemHeader), <<"-----END CERTIFICATE-----", NL>>)

\* RemovePemHeaders strips the PEM headers from a certificate
RemovePemHeaders(pemBlock) ==
  TrimSuffix(TrimPrefix(pemBlock, PemHeader), PemFooter)

\* -------------------------------------------------------------------- time
\* time.Hour, the unit of the model's clock
Hour == 1

\* ovExpiry = time.Hour * 24 * 365
ovExpiry == Hour * 24 * 365

\* a validity window that is one day short
ovExpiryShort == Hour * 24 * 364

\* t.Add(d)
TimeAdd(t, d) == t + d

Digit(n) == CASE n = 0 -> "0" [] n = 1 -> "1" [] n = 2 -> "2" [] n = 3 -> "3"
              [] n = 4 -> "4" [] n = 5 -> "5" [] n = 6 -> "6" [] n = 7 -> "7"
              [] n = 8 -> "8" [] n = 9 -> "9"

RECURSIVE Digits(_)
Digits(n) == IF n < 10 THEN <<Digit(n)>> ELSE Digits(n \div 10) \o <<Digit(n % 10)>>

\* t.String(): the clock reading written out in decimal
TimeString(t) == Digits(t)

\* -------------------------------------------------------------------- JSON
\* The JSON text is a sequence of tokens; a token stands for the bytes that
\* spell it.  A string token carries the units between its quotes: a plain
\* character, or a two-byte (six-byte for U+FFFD) escape.
Tok(t) == [t |-> t, u |-> <<>>]
StrTok(units) == [t |-> "str", u |-> units]
Junk == Tok("junk")

EscNL == "\\n"
EscQuote == "\\\""
EscReplacement == "\\ufffd"

\* encoding/json: a string is written coerced to valid UTF-8, with control
\* characters and quotes escaped
EncodeChar(c) ==
  CASE c = NL -> EscNL
    [] c = Quote -> EscQuote
    [] c = BadByte -> EscReplacement
    [] OTHER -> c

EncodeString(s) == [i \in 1..Len(s) |-> EncodeChar(s[i])]

\* encoding/json: unquoting a string literal
DecodeUnit(u) ==
  CASE u = EscNL -> NL
    [] u = EscQuote -> Quote
    [] u = EscReplacement -> Replacement
    [] u = BadByte -> Replacement
    [] OTHER -> u

DecodeString(units) == [i \in 1..Len(units) |-> DecodeUnit(units[i])]

\* a string literal may hold neither a raw control character nor a raw quote
ValidStrTok(tok) ==
  tok.t = "str" /\ \A i \in 1..Len(tok.u) : tok.u[i] \notin {NL, Quote}

\* the zero value of Inner
ZeroInner ==
  [CreatedOn |-> <<>>, ExpiresOn |-> <<>>, SerialNumber |-> <<>>, Assertion |-> <<>>,
   PinnedDomainCert |-> <<>>, DomainCertRevocationChecks |-> FALSE]

\* the zero value of OwnershipVoucher
ZeroOV == [OV |-> ZeroInner]

\* the json tag of OwnershipVoucher.OV
TagOV == <<"ietf-voucher:voucher">>
\* the json tags of Inner
TagCreatedOn == <<"created-on">>
TagExpiresOn == <<"expires-on">>
TagSerialNumber == <<"serial-number">>
TagAssertion == <<"assertion">>
TagPinnedDomainCert == <<"pinned-domain-cert">>
TagDomainCertRevocationChecks == <<"domain-cert-revocation-checks">>

BoolTok(b) == IF b THEN Tok("true") ELSE Tok("false")

\* json.Marshal of an OwnershipVoucher: the fields in declaration order
Marshal(ov) ==
  << Tok("{"), StrTok(TagOV), Tok(":"), Tok("{"),
     StrTok(TagCreatedOn), Tok(":"), StrTok(EncodeString(ov.OV.CreatedOn)), Tok(","),
     StrTok(TagExpiresOn), Tok(":"), StrTok(EncodeString(ov.OV.ExpiresOn)), Tok(","),
     StrTok(TagSerialNumber), Tok(":"), StrTok(EncodeString(ov.OV.SerialNumber)), Tok(","),
     StrTok(TagAssertion), Tok(":"), StrTok(EncodeString(ov.OV.Assertion)), Tok(","),
     StrTok(TagPinnedDomainCert), Tok(":"), StrTok(EncodeString(ov.OV.PinnedDomainCert)), Tok(","),
     StrTok(TagDomainCertRevocationChecks), Tok(":"), BoolTok(ov.OV.DomainCertRevocationChecks),
     Tok("}"), Tok("}") >>

\* a parsed JSON value
StrVal(s) == [k |-> "str", s |-> s, b |-> FALSE, m |-> <<>>]
BoolVal(b) == [k |-> "bool", s |-> <<>>, b |-> b, m |-> <<>>]
ObjVal(m) == [k |-> "obj", s |-> <<>>, b |-> FALSE, m |-> m]
NoVal == [k |-> "none", s |-> <<>>, b |-> FALSE, m |-> <<>>]

ParseFail == [ok |-> FALSE, next |-> 0, val |-> NoVal]

\* encoding/json's scanner: one value starting at token i
RECURSIVE ParseValue(_, _), ParseMembers(_, _, _)
ParseValue(toks, i) ==
  IF i > Len(toks) THEN ParseFail
  ELSE LET tok == toks[i] IN
    CASE tok.t = "str" ->
           IF ValidStrTok(tok)
           THEN [ok |-> TRUE, next |-> i + 1, val |-> StrVal(DecodeString(tok.u))]
           ELSE ParseFail
      [] tok.t = "true" -> [ok |-> TRUE, next |-> i + 1, val |-> BoolVal(TRUE)]
      [] tok.t = "false" -> [ok |-> TRUE, next |-> i + 1, val |-> BoolVal(FALSE)]
      [] tok.t = "{" ->
           IF i + 1 <= Len(toks) /\ toks[i + 1].t = "}"
           THEN [ok |-> TRUE, next |-> i + 2, val |-> ObjVal(<<>>)]
           ELSE ParseMembers(toks, i + 1, <<>>)
      [] OTHER -> ParseFail

\* the members of an object, the first starting at token i
ParseMembers(toks, i, acc) ==
  IF i + 2 > Len(toks) THEN ParseFail
  ELSE IF ~(ValidStrTok(toks[i]) /\ toks[i + 1].t = ":") THEN ParseFail
  ELSE LET v == ParseValue(toks, i + 2) IN
    IF ~v.ok \/ v.next > Len(toks) THEN ParseFail
    ELSE LET acc2 == Append(acc, [key |-> DecodeString(toks[i].u), val |-> v.val]) IN
      CASE toks[v.next].t = "}" -> [ok |-> TRUE, next |-> v.next + 1, val |-> ObjVal(acc2)]
        [] toks[v.next].t = "," -> ParseMembers(toks, v.next + 1, acc2)
        [] OTHER -> ParseFail

\* encoding/json: storing one member of the inner object into Inner; a value
\* of the wrong type leaves the field alone and is reported as an error
SetInnerField(st, key, val) ==
  LET strField(f) == IF val.k = "str" THEN [inner |-> [st.inner EXCEPT ![f] = val.s], err |-> st.err]
                     ELSE [inner |-> st.inner, err |-> TRUE]
  IN CASE key = TagCreatedOn -> strField("CreatedOn")
       [] key = TagExpiresOn -> strField("ExpiresOn")
       [] key = TagSerialNumber -> strField("SerialNumber")
       [] key = TagAssertion -> strField("Assertion")
       [] key = TagPinnedDomainCert -> strField("PinnedDomainCert")
       [] key = TagDomainCertRevocationChecks ->
            IF val.k = "bool"
            THEN [inner |-> [st.inner EXCEPT !.DomainCertRevocationChecks = val.b], err |-> st.err]
            ELSE [inner |-> st.inner, err |-> TRUE]
       [] OTHER -> st

RECURSIVE DecodeInner(_, _, _)
DecodeInner(members, i, st) ==
  IF i > Len(members) THEN st
  ELSE DecodeInner(members, i + 1, SetInnerField(st, members[i].key, members[i].val))

\* the members of the outer object: only "ietf-voucher:voucher" is a field
RECURSIVE DecodeOuter(_, _, _)
DecodeOuter(members, i, st) ==
  IF i > Len(members) THEN st
  ELSE LET m == members[i]
           st2 == IF m.key # TagOV THEN st
                  ELSE IF m.val.k = "obj" THEN DecodeInner(m.val.m, 1, st)
                  ELSE [inner |-> st.inner, err |-> TRUE]
       IN DecodeOuter(members, i + 1, st2)

\* json.Unmarshal(data, &ov) on a zero OwnershipVoucher: a syntax error
\* anywhere in data, or a value of the wrong type, is an error; members
\* that name no field are skipped and fields that are not named keep their
\* zero value
Unmarshal(data) ==
  LET p == ParseValue(data, 1) IN
  IF ~p.ok \/ p.next # Len(data) + 1 THEN [ov |-> ZeroOV, err |-> "syntax"]
  ELSE IF p.val.k # "obj" THEN [ov |-> ZeroOV, err |-> "type"]
  ELSE LET st == DecodeOuter(p.val.m, 1, [inner |-> ZeroInner, err |-> FALSE]) IN
       [ov |-> [OV |-> st.inner], err |-> IF st.err THEN "type" ELSE nil]

\* ------------------------------------------------------------ certificates
\* A certificate names its subject and its issuer, carries a public key, and
\* is or is not within its validity at the signing time of a voucher.  A
\* private key matches the certificate that carries the same key.
Cert(name, issuer, pub, expired) ==
  [name |-> name, issuer |-> issuer, pub |-> pub, expired |-> expired]

\* the trust anchor of the deployment
RootCert == Cert("root", "root", "kR", FALSE)
\* the vendor CA, issued by the root
VendorCert == Cert("vendor", "root", "kV", FALSE)
\* a vendor certificate that has run out
ExpiredCert == Cert("vendor-old", "root", "kV", TRUE)
\* a self-signed certificate of somebody else
RogueCert == Cert("rogue", "rogue", "kX", FALSE)

\* *x509.CertPool: nil, or a set of certificates
NilPool == [isNil |-> TRUE, certs |-> {}]
Pool(certs) == [isNil |-> FALSE, certs |-> certs]

\* x509 Certificate.Verify with the pool as roots and only the signer's own
\* certificate as intermediate (pkcs7 verifyCertChain): the certificate is a
\* root, or a root issued it
ChainVerifies(ee, truststore) ==
  \/ ee \in truststore.certs
  \/ \E r \in truststore.certs : r.name = ee.issuer

\* ------------------------------------------------------------------- pkcs7
\* []byte holding nothing
EmptyBytes == [kind |-> "empty"]
\* bytes that are no DER SignedData
GarbageBytes == [kind |-> "garbage"]

\* the digest of the content (SHA-256, taken to be free of collisions)
Digest(content) == content

\* pkcs7.NewSignedData, SetDigestAlgorithm, SetEncryptionAlgorithm, AddSigner
\* and Finish: the content, the signer's certificate and, as authenticated
\* attributes, the content's digest and the signing time, signed with the
\* private key.  AddSigner does not compare the key with the certificate.
SignedData(content, cert, priv, now) ==
  LET attrs == [digest |-> Digest(content), signingTime |-> now] IN
  [kind |-> "pkcs7", content |-> content, cert |-> cert,
   attrs |-> attrs, signature |-> [key |-> priv, over |-> attrs]]

\* pkcs7.Parse
Parse(in) ==
  IF in.kind = "pkcs7" THEN [p7 |-> in, err |-> nil]
  ELSE [p7 |-> EmptyBytes, err |-> "asn1"]

\* a VerifyWithChain that does not compare the digest with the content
VerifyWithChainNoDigest(p7, truststore) ==
  IF p7.cert.expired THEN "signing time outside of certificate validity"
  ELSE IF ~truststore.isNil /\ ~ChainVerifies(p7.cert, truststore) THEN "unknown authority"
  ELSE IF ~(p7.signature.key = p7.cert.pub /\ p7.signature.over = p7.attrs) THEN "verification error"
  ELSE nil

\* p7.VerifyWithChain(truststore): the digest attribute against the content,
\* the signing time against the certificate's validity, the chain of trust
\* unless the truststore is nil, and the signature over the attributes
VerifyWithChain(p7, truststore) ==
  IF p7.attrs.digest # Digest(p7.content) THEN "digest mismatch"
  ELSE IF p7.cert.expired THEN "signing time outside of certificate validity"
  ELSE IF ~truststore.isNil /\ ~ChainVerifies(p7.cert, truststore) THEN "unknown authority"
  ELSE IF ~(p7.signature.key = p7.cert.pub /\ p7.signature.over = p7.attrs) THEN "verification error"
  ELSE nil

\* --------------------------------------------------------- ownershipvoucher
\* the errors of VerifyAndUnmarshal, by the text they start with
ErrEmpty == "ownership voucher is empty"
ErrMalformed == "unable to parse into pkcs7 format"
ErrSchemaInvalid == "failed unmarshalling ownership voucher"
ErrSignatureInvalid == "failed to verify OV"

\* a VerifyAndUnmarshal without the length check
VerifyAndUnmarshalNoEmpty(in, certPool) ==
  LET p == Parse(in) IN
    IF p.err # nil THEN [ov |-> NilPtr, err |-> ErrMalformed]
    ELSE LET j == Unmarshal(p.p7.content) IN
      IF j.err # nil THEN [ov |-> NilPtr, err |-> ErrSchemaInvalid]
      ELSE IF VerifyWithChain(p.p7, certPool) # nil
      THEN [ov |-> NilPtr, err |-> ErrSignatureInvalid]
      ELSE [ov |-> Ptr(j.ov), err |-> nil]

\* VerifyAndUnmarshal unmarshals the contents of an Ownership Voucher and
\* verifies that it has been signed by a signer in the given cert pool
VerifyAndUnmarshal(in, certPool) ==
  IF in.kind = "empty" THEN [ov |-> NilPtr, err |-> ErrEmpty]
  ELSE LET p == Parse(in) IN
    IF p.err # nil THEN [ov |-> NilPtr, err |-> ErrMalformed]
    ELSE LET j == Unmarshal(p.p7.content) IN
      IF j.err # nil THEN [ov |-> NilPtr, err |-> ErrSchemaInvalid]
      ELSE IF VerifyWithChain(p.p7, certPool) # nil
      THEN [ov |-> NilPtr, err |-> ErrSignatureInvalid]
      ELSE [ov |-> Ptr(j.ov), err |-> nil]

\* a New whose validity window is one day short
NewShortExpiry(serial, pdcPem, vendorCACert, vendorCAPriv, currentTime) ==
  LET ov == [OV |-> [ZeroInner EXCEPT
               !.CreatedOn = TimeString(currentTime),
               !.ExpiresOn = TimeString(TimeAdd(currentTime, ovExpiryShort)),
               !.SerialNumber = serial,
               !.PinnedDomainCert = RemovePemHeaders(pdcPem)]]
  IN [bytes |-> SignedData(Marshal(ov), vendorCACert, vendorCAPriv, currentTime), err |-> nil]

\* a New that pins the certificate with its PEM framing
NewKeepsHeaders(serial, pdcPem, vendorCACert, vendorCAPriv, currentTime) ==
  LET ov == [OV |-> [ZeroInner EXCEPT
               !.CreatedOn = TimeString(currentTime),
               !.ExpiresOn = TimeString(TimeAdd(currentTime, ovExpiry)),
               !.SerialNumber = serial,
               !.PinnedDomainCert = pdcPem]]
  IN [bytes |-> SignedData(Marshal(ov), vendorCACert, vendorCAPriv, currentTime), err |-> nil]

\* New generates an Ownership Voucher which is signed by the vendor's CA;
\* currentTime is the reading of time.Now()
New(serial, pdcPem, vendorCACert, vendorCAPriv, currentTime) ==
  LET ov == [OV |-> [ZeroInner EXCEPT
               !.CreatedOn = TimeString(currentTime),
               !.ExpiresOn = TimeString(TimeAdd(currentTime, ovExpiry)),
               !.SerialNumber = serial,
               !.PinnedDomainCert = RemovePemHeaders(pdcPem)]]
  IN [bytes |-> SignedData(Marshal(ov), vendorCACert, vendorCAPriv, currentTime), err |-> nil]

\* ------------------------------------------------------------------ inputs
RECURSIVE SeqsOver(_, _)
\* the sequences over alphabet of length n and less
SeqsOver(alphabet, n) ==
  IF n = 0 THEN {<<>>}
  ELSE LET shorter == SeqsOver(alphabet, n - 1) IN
       shorter \cup {Append(s, c) : s \in {t \in shorter : Len(t) = n - 1}, c \in alphabet}

\* what a caller hands to New as pdcPem: no body, a body that is not UTF-8
\* and a body of two base64 lines, each with or without its framing
PdcInputs ==
  {pre \o b \o suf : pre \in {<<>>, PemHeader},
                     b \in {<<>>, <<BadByte>>, <<"M", NL, "I">>},
                     suf \in {<<>>, PemFooter}}

\* what RemovePemHeaders is tried on: every text of MaxPem characters and
\* less over the delimiter lines, the line end and a base64 character
PemInputs == SeqsOver({"-----BEGIN CERTIFICATE-----", "-----END CERTIFICATE-----", NL, "M"}, MaxPem)

\* serial numbers: none, a digit, a byte that is not UTF-8
Serials == {<<>>, <<"1">>, <<BadByte>>}

SignerCerts == {VendorCert, ExpiredCert, RogueCert}
PrivateKeys == {"kV", "kX"}
Pools == {NilPool, Pool({}), Pool({RootCert}), Pool({VendorCert})}

\* the outcomes of changing one byte of a token
SingleByteChanges(tok) ==
  CASE tok.t = "str" ->
         {Junk} \cup {[tok EXCEPT !.u[i] = c] : i \in 1..Len(tok.u), c \in {"~", NL}}
    [] tok.t \in {"true", "false"} -> {Junk}
    [] OTHER -> {Junk} \cup ({Tok("{"), Tok("}"), Tok(":"), Tok(",")} \ {tok})

\* ------------------------------------------------------- the server's files
\* A file holds a PEM certificate (with the key it carries, and with or
\* without PEM headers in its block), a PEM private key, a voucher, or
\* something else; or it is missing, or it is there and cannot be read.
File(kind, key, headers) == [kind |-> kind, key |-> key, headers |-> headers]
Missing == File("missing", "", FALSE)
Unreadable == File("unreadable", "", FALSE)
Garbage == File("garbage", "", FALSE)
CertFile(key, headers) == File("cert", key, headers)
KeyFile(key) == File("key", key, FALSE)
OVFile(id) == File("ov", id, FALSE)

\* fmt.Sprintf("%v_pub.pem", name) and fmt.Sprintf("%v_priv.pem", name)
PubName(name) == <<name, "_pub.pem">>
PrivName(name) == <<name, "_priv.pem">>

OVNameA == <<"ov", "_", "123A", ".txt">>
OVNameB == <<"ov", "_", "123B", ".txt">>

FileNames ==
  {PubName("oc"), PrivName("oc"), PubName("pdc"), PrivName("pdc"),
   PubName("vendorca"), PrivName("vendorca"), OVNameA, OVNameB}

\* os.ReadFile
ReadFile(fs, name) ==
  IF fs.files[name].kind \in {"missing", "unreadable"}
  THEN [data |-> Missing, err |-> "open: no such file or permission denied"]
  ELSE [data |-> fs.files[name], err |-> nil]

\* os.ReadDir: the names in the directory
ReadDir(fs) ==
  IF ~fs.listable THEN [files |-> {}, err |-> "open: cannot list"]
  ELSE [files |-> {n \in FileNames : fs.files[n].kind # "missing"}, err |-> nil]

\* the errors of the start-up, by the text they start with
ErrReadCert == "unable to read cert"
ErrReadKey == "unable to read key"
ErrListFiles == "unable to list files in artifact directory"
ErrNoOVs == "found no OVs in artifacts directory"
ErrTLSIdentity == "unable to generate Server TLS Certificate from PDC"

\* readKeypair reads the cert/key pair from the artifacts directory
readKeypair(fs, name) ==
  LET cert == ReadFile(fs, PubName(name))
      key == ReadFile(fs, PrivName(name))
  IN IF cert.err # nil THEN [kp |-> NilPtr, err |-> ErrReadCert]
     ELSE IF key.err # nil THEN [kp |-> NilPtr, err |-> ErrReadKey]
     ELSE [kp |-> Ptr([Cert |-> cert.data, Key |-> key.data]), err |-> nil]

\* the name of an OV file without "ov_" and ".txt"
Trimmed(name) == TrimSuffix(TrimPrefix(name, <<"ov", "_">>), <<".txt">>)

\* a readOVs that returns an empty list
readOVsAllowsNone(fs) ==
  LET dir == ReadDir(fs)
      ovFiles == {n \in dir.files : HasPrefix(n, <<"ov">>)}
  IN IF dir.err # nil THEN [ovs |-> {}, err |-> ErrListFiles]
     ELSE IF \E n \in ovFiles : ReadFile(fs, n).err # nil THEN [ovs |-> {}, err |-> ReadFile(fs, CHOOSE n \in ovFiles : ReadFile(fs, n).err # nil).err]
     ELSE [ovs |-> {[id |-> Trimmed(n), ov |-> ReadFile(fs, n).data] : n \in ovFiles},
           err |-> nil]

\* readOVs discovers and reads all available OVs in the artifacts directory
readOVs(fs) ==
  LET dir == ReadDir(fs)
      ovFiles == {n \in dir.files : HasPrefix(n, <<"ov">>)}
  IN IF dir.err # nil THEN [ovs |-> {}, err |-> ErrListFiles]
     ELSE IF \E n \in ovFiles : ReadFile(fs, n).err # nil THEN [ovs |-> {}, err |-> ReadFile(fs, CHOOSE n \in ovFiles : ReadFile(fs, n).err # nil).err]
     ELSE IF ovFiles = {} THEN [ovs |-> {}, err |-> ErrNoOVs]
     ELSE [ovs |-> {[id |-> Trimmed(n), ov |-> ReadFile(fs, n).data] : n \in ovFiles},
           err |-> nil]

\* tls.X509KeyPair: a certificate block, a private key block, and the same
\* key in both
X509KeyPair(certPEM, keyPEM) ==
  IF certPEM.kind # "cert" THEN [cert |-> NilPtr, err |-> "tls: failed to find certificate PEM data"]
  ELSE IF keyPEM.kind # "key" THEN [cert |-> NilPtr, err |-> "tls: failed to find PEM block with private key"]
  ELSE IF certPEM.key # keyPEM.key THEN [cert |-> NilPtr, err |-> "tls: private key does not match public key"]
  ELSE [cert |-> Ptr([Certificate |-> certPEM, PrivateKey |-> keyPEM]), err |-> nil]

\* generateServerTlsCert creates a new TLS keypair from the PDC
generateServerTlsCert(pdc) ==
  LET t == X509KeyPair(pdc.Cert, pdc.Key) IN
  IF t.err # nil THEN [cert |-> NilPtr, err |-> ErrTLSIdentity]
  ELSE [cert |-> t.cert, err |-> nil]

\* a parseSecurityArtifacts that makes the TLS identity from the OC pair
parseSecurityArtifactsFromOC(fs) ==
  LET oc == readKeypair(fs, "oc")
      pdc == readKeypair(fs, "pdc")
      vendorCA == readKeypair(fs, "vendorca")
      ovs == readOVs(fs)
      tlsCert == generateServerTlsCert(Deref(oc.kp))
  IN IF oc.err # nil THEN [sa |-> NilPtr, err |-> oc.err]
     ELSE IF pdc.err # nil THEN [sa |-> NilPtr, err |-> pdc.err]
     ELSE IF vendorCA.err # nil THEN [sa |-> NilPtr, err |-> vendorCA.err]
     ELSE IF ovs.err # nil THEN [sa |-> NilPtr, err |-> ovs.err]
     ELSE IF tlsCert.err # nil THEN [sa |-> NilPtr, err |-> tlsCert.err]
     ELSE [sa |-> Ptr([OC |-> Deref(oc.kp), PDC |-> Deref(pdc.kp), VendorCA |-> Deref(vendorCA.kp),
                       OV |-> ovs.ovs, TLSKeypair |-> Deref(tlsCert.cert)]),
           err |-> nil]

\* parseSecurityArtifacts reads from the directory to find the required
\* keypairs and ownership vouchers
parseSecurityArtifacts(fs) ==
  LET oc == readKeypair(fs, "oc")
      pdc == readKeypair(fs, "pdc")
      vendorCA == readKeypair(fs, "vendorca")
      ovs == readOVs(fs)
      tlsCert == generateServerTlsCert(Deref(pdc.kp))
  IN IF oc.err # nil THEN [sa |-> NilPtr, err |-> oc.err]
     ELSE IF pdc.err # nil THEN [sa |-> NilPtr, err |-> pdc.err]
     ELSE IF vendorCA.err # nil THEN [sa |-> NilPtr, err |-> vendorCA.err]
     ELSE IF ovs.err # nil THEN [sa |-> NilPtr, err |-> ovs.err]
     ELSE IF tlsCert.err # nil THEN [sa |-> NilPtr, err |-> tlsCert.err]
     ELSE [sa |-> Ptr([OC |-> Deref(oc.kp), PDC |-> Deref(pdc.kp), VendorCA |-> Deref(vendorCA.kp),
                       OV |-> ovs.ovs, TLSKeypair |-> Deref(tlsCert.cert)]),
           err |-> nil]

\* x509 CertPool.AppendCertsFromPEM on a new pool: the certificate blocks
\* without PEM headers are added, and it reports whether one was
AppendCertsFromPEM(pem) ==
  IF pem.kind = "cert" /\ ~pem.headers THEN [pool |-> {pem}, ok |-> TRUE]
  ELSE [pool |-> {}, ok |-> FALSE]

\* the directories the server may be started on
FileSystems ==
  { [listable |-> l,
     files |-> [n \in FileNames |->
        CASE n = PubName("oc") -> ocPub [] n = PrivName("oc") -> ocPriv
          [] n = PubName("pdc") -> pdcPub [] n = PrivName("pdc") -> pdcPriv
          [] n = PubName("vendorca") -> vPub [] n = PrivName("vendorca") -> vPriv
          [] n = OVNameA -> ovA [] n = OVNameB -> ovB]] :
     l \in BOOLEAN,
     ocPub \in {Missing, CertFile("kO", FALSE)},
     ocPriv \in {Missing, KeyFile("kO"), KeyFile("kZ")},
     pdcPub \in {Missing, Garbage, CertFile("kP", FALSE), CertFile("kP", TRUE)},
     pdcPriv \in {Missing, KeyFile("kP"), KeyFile("kZ")},
     vPub \in {Missing, CertFile("kV", FALSE)},
     vPriv \in {Missing, KeyFile("kV")},
     ovA \in {Missing, Unreadable, OVFile("123A")},
     ovB \in {Missing, OVFile("123B")} }

\* ------------------------------------------------------------------- state
VARIABLES
  pc,          \* where the caller of the package is: "idle", "signed", "done"
  clock,       \* the reading of time.Now(), in hours
  newArgs,     \* the arguments of the call of New
  newOut,      \* what that call returned
  verifyIn,    \* the bytes and the pool of the call of VerifyAndUnmarshal
  verifyOut,   \* what that call returned
  pemIn,       \* the argument of RemovePemHeaders
  pemOut,      \* what it returned
  mainPc,      \* where main is
  port,        \* the -port flag
  artifactDirectory, \* the -artifact_dir flag
  fs,          \* the artifact directory
  parsed,      \* what parseSecurityArtifacts returned to main
  trustBundle, \* main's trust pool
  exitMsg      \* what main logged as it exited

ovVars == <<pc, clock, newArgs, newOut, verifyIn, verifyOut>>
pemVars == <<pemIn, pemOut>>
mainVars == <<mainPc, port, artifactDirectory, fs, parsed, trustBundle, exitMsg>>
vars == <<ovVars, pemVars, mainVars>>

NoCall == [called |-> FALSE]
NotVerified == [from |-> "none"]

\* nobody uses the package
OVIdle ==
  /\ pc = "idle"
  /\ clock = 0
  /\ newArgs = NoCall
  /\ newOut = [bytes |-> EmptyBytes, err |-> nil]
  /\ verifyIn = NotVerified
  /\ verifyOut = [ov |-> NilPtr, err |-> nil]

\* nobody strips a certificate
PemIdle ==
  /\ pemIn = <<>>
  /\ pemOut = [done |-> FALSE, s |-> <<>>]

\* the server is not started
MainIdle ==
  /\ mainPc = "off"
  /\ port = ""
  /\ artifactDirectory = ""
  /\ fs \in {f \in FileSystems : ~f.listable /\ \A n \in FileNames : f.files[n] = Missing}
  /\ parsed = [sa |-> NilPtr, err |-> nil]
  /\ trustBundle = NilPool
  /\ exitMsg = ""

\* ----------------------------------------------- the package and its caller
Init == OVIdle /\ PemIdle /\ MainIdle

\* the clock moves on
Tick ==
  /\ pc = "idle"
  /\ clock < MaxClock
  /\ clock' = clock + 1
  /\ UNCHANGED <<pc, newArgs, newOut, verifyIn, verifyOut, pemVars, mainVars>>

\* a vendor calls New
CallNew ==
  /\ pc = "idle"
  /\ \E serial \in Serials, pdcPem \in PdcInputs, cert \in SignerCerts, priv \in PrivateKeys :
       /\ newArgs' = [called |-> TRUE, serial |-> serial, pdcPem |-> pdcPem,
                      vendorCACert |-> cert, vendorCAPriv |-> priv, currentTime |-> clock]
       /\ newOut' = New(serial, pdcPem, cert, priv, clock)
  /\ pc' = "signed"
  /\ UNCHANGED <<clock, verifyIn, verifyOut, pemVars, mainVars>>

Verified(from, in, pool) ==
  /\ verifyIn' = [from |-> from, in |-> in, certPool |-> pool]
  /\ verifyOut' = VerifyAndUnmarshal(in, pool)
  /\ pc' = "done"
  /\ UNCHANGED <<clock, newArgs, newOut, pemVars, mainVars>>

\* VerifyAndUnmarshal on the voucher New returned
VerifyVoucher ==
  /\ pc = "signed" /\ newOut.err = nil
  /\ \E pool \in Pools : Verified("voucher", newOut.bytes, pool)

\* VerifyAndUnmarshal on that voucher with one byte of its content changed
VerifyTampered ==
  /\ pc = "signed" /\ newOut.err = nil
  /\ \E pool \in Pools, i \in 1..Len(newOut.bytes.content) :
       \E tok \in SingleByteChanges(newOut.bytes.content[i]) \ {newOut.bytes.content[i]} :
         Verified("tampered", [newOut.bytes EXCEPT !.content[i] = tok], pool)

\* VerifyAndUnmarshal on no bytes, and on bytes that are no voucher
VerifyOther ==
  /\ pc \in {"idle", "signed"}
  /\ \E pool \in Pools, in \in {EmptyBytes, GarbageBytes} : Verified("other", in, pool)

Next == Tick \/ CallNew \/ VerifyVoucher \/ VerifyTampered \/ VerifyOther

Spec == Init /\ [][Next]_vars

\* ------------------------------------------------------ RemovePemHeaders
PemInit ==
  /\ OVIdle /\ MainIdle
  /\ pemIn \in PemInputs
  /\ pemOut = [done |-> FALSE, s |-> <<>>]

\* a caller strips pemIn
CallRemovePemHeaders ==
  /\ ~pemOut.done
  /\ pemOut' = [done |-> TRUE, s |-> RemovePemHeaders(pemIn)]
  /\ UNCHANGED <<pemIn, ovVars, mainVars>>

PemNext == CallRemovePemHeaders

PemSpec == PemInit /\ [][PemNext]_vars

\* ------------------------------------------------------------------- main
MainInit ==
  /\ OVIdle /\ PemIdle
  /\ mainPc = "start"
  /\ port \in {"", "8008"}
  /\ artifactDirectory \in {"", "../testdata/"}
  /\ fs \in FileSystems
  /\ parsed = [sa |-> NilPtr, err |-> nil]
  /\ trustBundle = NilPool
  /\ exitMsg = ""

\* log.Exit, log.Exitf
Exit(msg) == mainPc' = "exited" /\ exitMsg' = msg

\* main, lines 236-247: the flags
MainFlags ==
  /\ mainPc = "start"
  /\ IF port = "" THEN Exit("no port selected. specify with the -port flag")
     ELSE IF artifactDirectory = "" THEN Exit("no artifact directory specified")
     ELSE mainPc' = "flags" /\ UNCHANGED exitMsg
  /\ UNCHANGED <<port, artifactDirectory, fs, parsed, trustBundle, ovVars, pemVars>>

\* main, lines 249-253: the security artifacts
MainParse ==
  /\ mainPc = "flags"
  /\ parsed' = parseSecurityArtifacts(fs)
  /\ IF parsed'.err # nil THEN Exit(parsed'.err)
     ELSE mainPc' = "parsed" /\ UNCHANGED exitMsg
  /\ UNCHANGED <<port, artifactDirectory, fs, trustBundle, ovVars, pemVars>>

\* main, lines 255-269: the entities, the trust pool, the TLS configuration
\* and the gRPC server
MainTrust ==
  /\ mainPc = "parsed"
  /\ LET added == AppendCertsFromPEM(Deref(parsed.sa).PDC.Cert) IN
       /\ trustBundle' = Pool(added.pool)
       /\ IF ~added.ok THEN Exit("unable to add PDC cert to trust pool")
          ELSE mainPc' = "configured" /\ UNCHANGED exitMsg
  /\ UNCHANGED <<port, artifactDirectory, fs, parsed, ovVars, pemVars>>

\* main, lines 271-277: net.Listen, which may fail
MainListen ==
  /\ mainPc = "configured"
  /\ \E ok \in BOOLEAN :
       IF ~ok THEN Exit("Error listening on port")
       ELSE mainPc' = "listening" /\ UNCHANGED exitMsg
  /\ UNCHANGED <<port, artifactDirectory, fs, parsed, trustBundle, ovVars, pemVars>>

\* main, lines 278-282: s.Serve, which serves until it fails or is stopped
MainServe ==
  /\ mainPc = "listening"
  /\ \E stopped \in BOOLEAN :
       IF ~stopped THEN Exit("Error serving grpc")
       ELSE mainPc' = "returned" /\ UNCHANGED exitMsg
  /\ UNCHANGED <<port, artifactDirectory, fs, parsed, trustBundle, ovVars, pemVars>>

MainNext == MainFlags \/ MainParse \/ MainTrust \/ MainListen \/ MainServe

MainSpec == MainInit /\ [][MainNext]_vars

\* -------------------------------------------------------------- properties
\* every byte of s is part of valid UTF-8
ValidUTF8(s) == \A i \in 1..Len(s) : s[i] # BadByte

\* cert is in the pool, or a member of the pool issued it
InPoolOrIssuedByIt(cert, pool) ==
  \/ cert \in pool.certs
  \/ \E r \in pool.certs : r.name = cert.issuer

\* the value of a decimal numeral
RECURSIVE ParseTime(_)
ParseTime(digits) ==
  IF Len(digits) = 0 THEN 0
  ELSE 10 * ParseTime(SubSeq(digits, 1, Len(digits) - 1))
       + (CHOOSE d \in 0..9 : Digit(d) = digits[Len(digits)])

\* the claims New signed, decoded from the content of its voucher
SignedClaims == Unmarshal(newOut.bytes.content).ov.OV

\* C1: a voucher that New signed with a key pair whose certificate is
\* neither in the pool nor issued by a member of the pool is rejected by
\* VerifyAndUnmarshal with SignatureInvalid and a nil voucher
C1_UntrustedSignerRejected ==
  (/\ verifyIn.from = "voucher"
   /\ newArgs.vendorCAPriv = newArgs.vendorCACert.pub
   /\ ~InPoolOrIssuedByIt(newArgs.vendorCACert, verifyIn.certPool))
  => (verifyOut.err = ErrSignatureInvalid /\ verifyOut.ov = NilPtr)

\* C2 as claimed: a voucher with one byte of its signed content changed is
\* rejected with SignatureInvalid and no other error
C2_TamperIsSignatureInvalid ==
  verifyIn.from = "tampered" => verifyOut.err = ErrSignatureInvalid

\* C2: a voucher with one byte of its signed content changed is never
\* accepted: VerifyAndUnmarshal returns a nil voucher, with SchemaInvalid if
\* the changed content no longer decodes and with SignatureInvalid if it does
C2_TamperRejected ==
  verifyIn.from = "tampered" =>
    /\ verifyOut.ov = NilPtr
    /\ verifyOut.err = IF Unmarshal(verifyIn.in.content).err # nil
                       THEN ErrSchemaInvalid ELSE ErrSignatureInvalid

\* a tampered voucher of a trusted signer is rejected for its signature
C2_Witness ==
  /\ verifyIn.from = "tampered"
  /\ newArgs.vendorCACert = VendorCert /\ newArgs.vendorCAPriv = "kV"
  /\ verifyIn.certPool = Pool({RootCert})
  /\ Unmarshal(verifyIn.in.content).err = nil
  /\ verifyOut.err = ErrSignatureInvalid

\* C3 as claimed: for every serial, certificate and vendor key pair, and every
\* pool that holds the vendor certificate or its issuer, VerifyAndUnmarshal
\* accepts what New signed and returns the serial and the stripped certificate
C3_SignVerifyAgreement ==
  (/\ verifyIn.from = "voucher"
   /\ newArgs.vendorCAPriv = newArgs.vendorCACert.pub
   /\ InPoolOrIssuedByIt(newArgs.vendorCACert, verifyIn.certPool))
  => /\ verifyOut.err = nil
     /\ verifyOut.ov # NilPtr
     /\ \A ov \in verifyOut.ov :
          /\ ov.OV.SerialNumber = newArgs.serial
          /\ ov.OV.PinnedDomainCert = RemovePemHeaders(newArgs.pdcPem)

\* C3: the same for a serial and a certificate text that are valid UTF-8 and
\* a vendor certificate that is within its validity when New signs
C3_SignVerifyAgreementValidInputs ==
  (/\ verifyIn.from = "voucher"
   /\ newArgs.vendorCAPriv = newArgs.vendorCACert.pub
   /\ InPoolOrIssuedByIt(newArgs.vendorCACert, verifyIn.certPool)
   /\ ValidUTF8(newArgs.serial) /\ ValidUTF8(newArgs.pdcPem)
   /\ ~newArgs.vendorCACert.expired)
  => /\ verifyOut.err = nil
     /\ verifyOut.ov # NilPtr
     /\ \A ov \in verifyOut.ov :
          /\ ov.OV.SerialNumber = newArgs.serial
          /\ ov.OV.PinnedDomainCert = RemovePemHeaders(newArgs.pdcPem)

\* a voucher for serial "1" and a framed two-line certificate, signed by the
\* vendor CA, is accepted under the root
C3_Witness ==
  /\ verifyIn.from = "voucher"
  /\ newArgs.serial = <<"1">>
  /\ newArgs.pdcPem = PemHeader \o <<"M", NL, "I">> \o PemFooter
  /\ newArgs.vendorCACert = VendorCert /\ newArgs.vendorCAPriv = "kV"
  /\ verifyIn.certPool = Pool({RootCert})
  /\ verifyOut.err = nil
  /\ \E ov \in verifyOut.ov : ov.OV.PinnedDomainCert = <<"M", NL, "I">>

\* C4: VerifyAndUnmarshal never returns claims whose serial-number is absent
\* or empty (stated for the calls with a pool, which check the chain of trust)
C4_SchemaRejection ==
  (verifyIn.from # "none" /\ ~verifyIn.certPool.isNil /\ verifyOut.err = nil)
  => \A ov \in verifyOut.ov : ov.OV.SerialNumber # <<>>

\* the pinned-domain certificate input starts with the BEGIN CERTIFICATE line
\* and ends with the END CERTIFICATE line
FramedPem(p) == HasPrefix(p, PemHeader) /\ HasSuffix(p, PemFooter)

\* C7: New returns an error and no bytes when the private key does not match
\* the vendor certificate or the certificate input is not framed PEM
C7_SigningErrors ==
  (/\ newArgs.called
   /\ \/ newArgs.vendorCAPriv # newArgs.vendorCACert.pub
      \/ ~FramedPem(newArgs.pdcPem))
  => (newOut.err # nil /\ newOut.bytes.kind = "empty")

\* C9: in every voucher of New, created-on is the clock reading of the call
\* and expires-on is created-on plus 365 days, whatever the caller passed
C9_FixedValidityWindow ==
  pc = "signed" =>
    /\ ParseTime(SignedClaims.CreatedOn) = newArgs.currentTime
    /\ ParseTime(SignedClaims.ExpiresOn) = ParseTime(SignedClaims.CreatedOn) + 365 * 24

\* New was called one hour after the epoch
C9_Witness ==
  /\ pc = "signed" /\ newArgs.currentTime = 1
  /\ SignedClaims.CreatedOn = <<"1">>
  /\ SignedClaims.ExpiresOn = <<"8", "7", "6", "1">>

\* C10: on no bytes VerifyAndUnmarshal returns the Empty error and a nil
\* voucher, whatever the pool
C10_EmptyInput ==
  (verifyIn.from = "other" /\ verifyIn.in.kind = "empty")
  => (verifyOut.err = ErrEmpty /\ verifyOut.ov = NilPtr)

\* no bytes were verified against a nil pool
C10_Witness ==
  /\ verifyIn.from = "other" /\ verifyIn.in.kind = "empty"
  /\ verifyIn.certPool = NilPool
  /\ verifyOut.err = ErrEmpty

\* a PEM certificate: the header line, a body of base64 lines, the footer line
WellFormedPem(p) ==
  /\ Len(p) > Len(PemHeader) + Len(PemFooter)
  /\ HasPrefix(p, PemHeader) /\ HasSuffix(p, PemFooter)
  /\ \A i \in (Len(PemHeader) + 1)..(Len(p) - Len(PemFooter)) : p[i] \in {"M", NL}
  /\ \E i \in (Len(PemHeader) + 1)..(Len(p) - Len(PemFooter)) : p[i] = "M"

\* C8: for a well-formed PEM certificate p, the header, RemovePemHeaders(p)
\* and the footer make p again, and RemovePemHeaders(p) holds no delimiter line
C8_PemStrippingInverse ==
  (pemOut.done /\ WellFormedPem(pemIn)) =>
    /\ PemHeader \o pemOut.s \o PemFooter = pemIn
    /\ ~Contains(pemOut.s, <<"-----BEGIN CERTIFICATE-----">>)
    /\ ~Contains(pemOut.s, <<"-----END CERTIFICATE-----">>)

\* a certificate of two lines was stripped
C8_Witness ==
  /\ pemOut.done
  /\ pemIn = PemHeader \o <<"M", "M">> \o PemFooter
  /\ pemOut.s = <<"M", "M">>

\* parseSecurityArtifacts has returned to main
ParseRan == parsed.sa # NilPtr \/ parsed.err # nil

\* both files of the pair can be read
PairReadable(name) ==
  /\ fs.files[PubName(name)].kind \notin {"missing", "unreadable"}
  /\ fs.files[PrivName(name)].kind \notin {"missing", "unreadable"}

\* the files of the pair are a certificate and the private key of that
\* certificate
PairMatches(name) ==
  /\ fs.files[PubName(name)].kind = "cert"
  /\ fs.files[PrivName(name)].kind = "key"
  /\ fs.files[PubName(name)].key = fs.files[PrivName(name)].key

\* the directory can be listed and holds vouchers, all of them readable
VouchersLoadable ==
  /\ fs.listable
  /\ \E n \in {OVNameA, OVNameB} : fs.files[n].kind = "ov"
  /\ \A n \in {OVNameA, OVNameB} : fs.files[n].kind # "unreadable"

\* C5 as claimed, the server key pair being the first of the three (OC): a
\* server certificate that does not match the server key never yields a
\* SecurityArtifacts value
C5_ServerPairMismatchFails ==
  (ParseRan /\ PairReadable("oc") /\ ~PairMatches("oc")) => parsed.sa = NilPtr

\* C5: a PDC certificate that does not match the PDC key makes
\* parseSecurityArtifacts return nil and an error, which is the TLS identity
\* error when the three pairs and the vouchers were read
C5_PdcPairMismatchFails ==
  (ParseRan /\ PairReadable("pdc") /\ ~PairMatches("pdc")) =>
    /\ parsed.sa = NilPtr
    /\ parsed.err # nil
    /\ (PairReadable("oc") /\ PairReadable("vendorca") /\ VouchersLoadable)
         => parsed.err = ErrTLSIdentity

\* the PDC key is not the key of the PDC certificate, everything else is
\* there, and the assembly failed on the TLS identity
C5_Witness ==
  /\ ParseRan
  /\ fs.files[PubName("pdc")] = CertFile("kP", FALSE)
  /\ fs.files[PrivName("pdc")] = KeyFile("kZ")
  /\ PairMatches("oc") /\ PairMatches("vendorca") /\ VouchersLoadable
  /\ parsed.sa = NilPtr /\ parsed.err = ErrTLSIdentity
  /\ mainPc = "exited"

\* main has listened on the port
Listened ==
  \/ mainPc \in {"listening", "returned"}
  \/ mainPc = "exited" /\ exitMsg = "Error serving grpc"

\* C6: main listens only after the three key pairs were read, the vouchers
\* were loaded, the TLS identity was made from the PDC pair and the PDC
\* certificate was added to the trust pool; a step that fails ends the
\* process, which then has not listened
C6_RefuseToStart ==
  /\ Listened =>
       /\ port # "" /\ artifactDirectory # ""
       /\ PairReadable("oc") /\ PairReadable("pdc") /\ PairReadable("vendorca")
       /\ VouchersLoadable
       /\ PairMatches("pdc")
       /\ parsed.err = nil
       /\ \E sa \in parsed.sa :
            /\ sa.OV # {}
            /\ sa.TLSKeypair.Certificate = fs.files[PubName("pdc")]
            /\ sa.PDC.Cert \in trustBundle.certs
  /\ (ParseRan /\ parsed.err # nil) => (mainPc = "exited" /\ ~Listened)
  /\ (~trustBundle.isNil /\ trustBundle.certs = {}) => (mainPc = "exited" /\ ~Listened)

\* main is listening
C6_Witness ==
  /\ mainPc = "listening"
  /\ \E sa \in parsed.sa : sa.OV = {[id |-> <<"123A">>, ov |-> OVFile("123A")]}
  /\ trustBundle = Pool({CertFile("kP", FALSE)})

====
